---- MODULE Spec2Model ----
(***************************************************************************)
(* Model of tiny-morse-decoder.c: the tic clock, the debounced edge        *)
(* detector, the tokenizer, the decoder and the software UART, with the    *)
(* main loop that ties them together.                                      *)
(*                                                                         *)
(* All integers are 16-bit unsigned (uint16_t) unless noted; characters    *)
(* are their ASCII codes.                                                  *)
(***************************************************************************)
EXTENDS Integers, Sequences, FiniteSets, TLC

(***************************************************************************)
(* Bounds of the model.                                                    *)
(***************************************************************************)
\* Longest run of DOT/DASH symbols the decoder harness feeds before an
\* END_OF_CHAR.  9 dashes are 18 bits: the 16-bit accumulator overflows.
MaxSyms == 9

\* The model counts time in tics of TicDivider hardware tics each: the tic
\* frequency, and with it every duration the source derives from TIC_FREQ,
\* is divided by TicDivider.  2 dot times of the fastest keying rate stay
\* longer than the 10 tics of one serial frame, as they are in the source.
TicDivider == 100

\* The key is first pressed within MaxIdle tics of the main loop being
\* entered; a mark is followed for MaxMarkUnits dot times and the gap after
\* it for MaxGapUnits dot times.
MaxIdle == 1
MaxMarkUnits == 3
MaxGapUnits == 6

\* Keying of two characters in a row: each mark is followed for MaxPairMark
\* tics, and the keying for MaxPairEdges edges.
MaxPairMark == 2
MaxPairEdges == 5

\* tics() is called MaxTicsCalls times while MaxTicsRun compare matches occur.
MaxTicsCalls == 3
MaxTicsRun == 3

\* invite(): the tic interrupt may fire once between any two statements, so
\* that a phase of the LED is measured up to InviteSlack tics longer than the
\* delays in it (4 statements lie between LED on and LED off in a dash).
InviteSlack == 4

\* The decoder harness for long characters feeds DOT and DASH as long as
\* they encode to fewer than MaxBits bits: the last symbol fed is past the
\* 16 bits of the accumulator.
MaxBits == 18

\* Half-width of the windows of start times, horizons and poll times that
\* the tic comparison is applied to.
Win == 3

(***************************************************************************)
(* Machine arithmetic.                                                     *)
(***************************************************************************)
WORD == 65536       \* 2^16: uint16_t wraps modulo WORD
HALF == 32768       \* 2^15: the sign bit of int16_t

U16(x) == x % WORD

\* (int16_t) x for x in 0..65535.
S16(x) == IF x >= HALF THEN x - WORD ELSE x

RECURSIVE BitOr(_, _)
\* a | b on naturals.
BitOr(a, b) ==
    IF a = 0 THEN b
    ELSE IF b = 0 THEN a
    ELSE (IF (a % 2 = 1) \/ (b % 2 = 1) THEN 1 ELSE 0)
         + 2 * BitOr(a \div 2, b \div 2)

(***************************************************************************)
(* Symbols and edges.                                                      *)
(***************************************************************************)
NO_EDGE == "NO_EDGE"
RISE    == "RISE"
FALL    == "FALL"

NO_SYMBOL   == "NO_SYMBOL"
DOT         == "DOT"
DASH        == "DASH"
END_OF_CHAR == "END_OF_CHAR"
END_OF_WORD == "END_OF_WORD"

Symbols == {NO_SYMBOL, DOT, DASH, END_OF_CHAR, END_OF_WORD}

(***************************************************************************)
(* Timing calculations.                                                    *)
(***************************************************************************)
KEY_RATE_0 == 5
KEY_RATE_1 == 8
KEY_RATE_2 == 12
KEY_RATE_3 == 18

BAUD_RATE == 9600
F_CPU == 9600000    \* ATtiny13A

\* (int)((float)F_CPU/8/BAUD_RATE+0.5) - 1
TIMER_TOP == ((2 * F_CPU + 8 * BAUD_RATE) \div (16 * BAUD_RATE)) - 1

\* F_CPU/8/(TIMER_TOP+1), in Hz, in the model's tics.
TIC_FREQ == (F_CPU \div (8 * (TIMER_TOP + 1))) \div TicDivider

\* (uint16_t)(1.2/(rate)*TIC_FREQ)
DOT_TIME(rate) == (12 * TIC_FREQ) \div (10 * rate)

\* Faulty variant: 10 ms counted in CPU cycles, not in tics.
DEBOUNCE_TIME_cpu == ((F_CPU + 50) \div 100) % 65536

\* (uint16_t)(0.01*TIC_FREQ+0.5)
DEBOUNCE_TIME == (TIC_FREQ + 50) \div 100

\* Faulty variant: the comparison is made on the unsigned values.
expired_unsigned(now, timeout) == now >= timeout

\* Faulty variant: a timeout that is just reached has not expired.
expired_strict(now, timeout) == S16(U16(now - timeout)) > 0

\* DOT_TIME(KEY_RATE_0) + DOT_TIME(KEY_RATE_0) + DOT_TIME(KEY_RATE_0) at the
\* tic frequency of the hardware: the longest delay_3u of set_delays().
LongestDelay ==
    3 * ((12 * (F_CPU \div (8 * (TIMER_TOP + 1)))) \div (10 * KEY_RATE_0))

\* (int16_t) (now - timeout) >= 0
expired(now, timeout) == S16(U16(now - timeout)) >= 0

(***************************************************************************)
(* Keying speed selection.                                                 *)
(***************************************************************************)
\* dot_times[speed] of the source is dot_times[speed + 1] here.
dot_times ==
    << DOT_TIME(KEY_RATE_3), DOT_TIME(KEY_RATE_2),
       DOT_TIME(KEY_RATE_1), DOT_TIME(KEY_RATE_0) >>

\* set_delays(): delay_1u, delay_2u, delay_3u for a selection read from PINB.
set_delays(speed) ==
    LET d1 == dot_times[speed + 1]
        d2 == U16(d1 + d1)
        d3 == U16(d2 + d1)
    IN  [delay_1u |-> d1, delay_2u |-> d2, delay_3u |-> d3]

(***************************************************************************)
(* Edge detector.                                                          *)
(***************************************************************************)
\* Faulty variant: a release is reported at once, without debouncing.
get_edge_nodebounce(state, timeout, now, down) ==
    CASE state = "UP" /\ down ->
            [state |-> "DOWN", timeout |-> timeout, led |-> "on",
             ret |-> FALL]
      [] state = "DOWN" /\ ~down ->
            [state |-> "UP", timeout |-> timeout, led |-> "off",
             ret |-> RISE]
      [] OTHER ->
            [state |-> state, timeout |-> timeout, led |-> "same",
             ret |-> NO_EDGE]

\* Faulty variant: a key that bounces back down is reported as a FALL.
get_edge_bounce_fall(state, timeout, now, down) ==
    CASE state = "UP" /\ down ->
            [state |-> "DOWN", timeout |-> timeout, led |-> "on",
             ret |-> FALL]
      [] state = "DOWN" /\ ~down ->
            [state |-> "BOUNCING", timeout |-> U16(now + DEBOUNCE_TIME),
             led |-> "same", ret |-> NO_EDGE]
      [] state = "BOUNCING" /\ down ->
            [state |-> "DOWN", timeout |-> timeout, led |-> "same",
             ret |-> FALL]
      [] state = "BOUNCING" /\ ~down /\ expired(now, timeout) ->
            [state |-> "UP", timeout |-> timeout, led |-> "off",
             ret |-> RISE]
      [] OTHER ->
            [state |-> state, timeout |-> timeout, led |-> "same",
             ret |-> NO_EDGE]

\* get_edge() on its statics (state, timeout), with now = tics() and down =
\* key_down(): the new statics, what is done to the LED and the edge
\* returned.
get_edge(state, timeout, now, down) ==
    CASE state = "UP" /\ down ->
            [state |-> "DOWN", timeout |-> timeout, led |-> "on",
             ret |-> FALL]
      [] state = "DOWN" /\ ~down ->
            [state |-> "BOUNCING", timeout |-> U16(now + DEBOUNCE_TIME),
             led |-> "same", ret |-> NO_EDGE]
      [] state = "BOUNCING" /\ down ->
            [state |-> "DOWN", timeout |-> timeout, led |-> "same",
             ret |-> NO_EDGE]
      [] state = "BOUNCING" /\ ~down /\ expired(now, timeout) ->
            [state |-> "UP", timeout |-> timeout, led |-> "off",
             ret |-> RISE]
      [] OTHER ->
            [state |-> state, timeout |-> timeout, led |-> "same",
             ret |-> NO_EDGE]

(***************************************************************************)
(* Tokenizer.                                                              *)
(***************************************************************************)
\* Faulty variant: the word timeout is armed 3 units after the mark, not 3 units
\* after the end of the character.
tokenize_word_3u(state, timeout, now, e, d2u, d3u) ==
    CASE state = "INTERWORD" /\ e = FALL ->
            [state |-> "SHORT", timeout |-> U16(now + d2u), ret |-> NO_SYMBOL]
      [] state = "SHORT" /\ e = RISE ->
            [state |-> "INTERELEMENT", timeout |-> U16(now + d2u),
             ret |-> DOT]
      [] state = "SHORT" /\ e # RISE /\ expired(now, timeout) ->
            [state |-> "LONG", timeout |-> timeout, ret |-> NO_SYMBOL]
      [] state = "LONG" /\ e = RISE ->
            [state |-> "INTERELEMENT", timeout |-> U16(now + d2u),
             ret |-> DASH]
      [] state = "INTERELEMENT" /\ e = FALL ->
            [state |-> "SHORT", timeout |-> U16(now + d2u), ret |-> NO_SYMBOL]
      [] state = "INTERELEMENT" /\ e # FALL /\ expired(now, timeout) ->
            [state |-> "INTERCHARACTER",
             timeout |-> U16(timeout + (d3u - d2u)), ret |-> END_OF_CHAR]
      [] state = "INTERCHARACTER" /\ e = FALL ->
            [state |-> "SHORT", timeout |-> U16(now + d2u), ret |-> NO_SYMBOL]
      [] state = "INTERCHARACTER" /\ e # FALL /\ expired(now, timeout) ->
            [state |-> "INTERWORD", timeout |-> timeout, ret |-> END_OF_WORD]
      [] OTHER ->
            [state |-> state, timeout |-> timeout, ret |-> NO_SYMBOL]

\* Faulty variant: the gap after a mark is timed with delay_3u.
tokenize_rise_3u(state, timeout, now, e, d2u, d3u) ==
    CASE state = "INTERWORD" /\ e = FALL ->
            [state |-> "SHORT", timeout |-> U16(now + d2u), ret |-> NO_SYMBOL]
      [] state = "SHORT" /\ e = RISE ->
            [state |-> "INTERELEMENT", timeout |-> U16(now + d3u),
             ret |-> DOT]
      [] state = "SHORT" /\ e # RISE /\ expired(now, timeout) ->
            [state |-> "LONG", timeout |-> timeout, ret |-> NO_SYMBOL]
      [] state = "LONG" /\ e = RISE ->
            [state |-> "INTERELEMENT", timeout |-> U16(now + d3u),
             ret |-> DASH]
      [] state = "INTERELEMENT" /\ e = FALL ->
            [state |-> "SHORT", timeout |-> U16(now + d2u), ret |-> NO_SYMBOL]
      [] state = "INTERELEMENT" /\ e # FALL /\ expired(now, timeout) ->
            [state |-> "INTERCHARACTER", timeout |-> U16(now + d3u),
             ret |-> END_OF_CHAR]
      [] state = "INTERCHARACTER" /\ e = FALL ->
            [state |-> "SHORT", timeout |-> U16(now + d2u), ret |-> NO_SYMBOL]
      [] state = "INTERCHARACTER" /\ e # FALL /\ expired(now, timeout) ->
            [state |-> "INTERWORD", timeout |-> timeout, ret |-> END_OF_WORD]
      [] OTHER ->
            [state |-> state, timeout |-> timeout, ret |-> NO_SYMBOL]

\* Faulty variant: the timeout is not armed again when the character ends.
tokenize_norearm(state, timeout, now, e, d2u, d3u) ==
    CASE state = "INTERWORD" /\ e = FALL ->
            [state |-> "SHORT", timeout |-> U16(now + d2u), ret |-> NO_SYMBOL]
      [] state = "SHORT" /\ e = RISE ->
            [state |-> "INTERELEMENT", timeout |-> U16(now + d2u),
             ret |-> DOT]
      [] state = "SHORT" /\ e # RISE /\ expired(now, timeout) ->
            [state |-> "LONG", timeout |-> timeout, ret |-> NO_SYMBOL]
      [] state = "LONG" /\ e = RISE ->
            [state |-> "INTERELEMENT", timeout |-> U16(now + d2u),
             ret |-> DASH]
      [] state = "INTERELEMENT" /\ e = FALL ->
            [state |-> "SHORT", timeout |-> U16(now + d2u), ret |-> NO_SYMBOL]
      [] state = "INTERELEMENT" /\ e # FALL /\ expired(now, timeout) ->
            [state |-> "INTERCHARACTER", timeout |-> timeout,
             ret |-> END_OF_CHAR]
      [] state = "INTERCHARACTER" /\ e = FALL ->
            [state |-> "SHORT", timeout |-> U16(now + d2u), ret |-> NO_SYMBOL]
      [] state = "INTERCHARACTER" /\ e # FALL /\ expired(now, timeout) ->
            [state |-> "INTERWORD", timeout |-> timeout, ret |-> END_OF_WORD]
      [] OTHER ->
            [state |-> state, timeout |-> timeout, ret |-> NO_SYMBOL]
\* Faulty variant: the end of the inter-character gap gives END_OF_CHAR again.
tokenize_eoc_again(state, timeout, now, e, d2u, d3u) ==
    CASE state = "INTERWORD" /\ e = FALL ->
            [state |-> "SHORT", timeout |-> U16(now + d2u), ret |-> NO_SYMBOL]
      [] state = "SHORT" /\ e = RISE ->
            [state |-> "INTERELEMENT", timeout |-> U16(now + d2u),
             ret |-> DOT]
      [] state = "SHORT" /\ e # RISE /\ expired(now, timeout) ->
            [state |-> "LONG", timeout |-> timeout, ret |-> NO_SYMBOL]
      [] state = "LONG" /\ e = RISE ->
            [state |-> "INTERELEMENT", timeout |-> U16(now + d2u),
             ret |-> DASH]
      [] state = "INTERELEMENT" /\ e = FALL ->
            [state |-> "SHORT", timeout |-> U16(now + d2u), ret |-> NO_SYMBOL]
      [] state = "INTERELEMENT" /\ e # FALL /\ expired(now, timeout) ->
            [state |-> "INTERCHARACTER", timeout |-> U16(now + d3u),
             ret |-> END_OF_CHAR]
      [] state = "INTERCHARACTER" /\ e = FALL ->
            [state |-> "SHORT", timeout |-> U16(now + d2u), ret |-> NO_SYMBOL]
      [] state = "INTERCHARACTER" /\ e # FALL /\ expired(now, timeout) ->
            [state |-> "INTERWORD", timeout |-> timeout, ret |-> END_OF_CHAR]
      [] OTHER ->
            [state |-> state, timeout |-> timeout, ret |-> NO_SYMBOL]

\* tokenize(edge) on its statics (state, timeout), with now = tics() and the
\* delays d2u = delay_2u, d3u = delay_3u: the new statics and the symbol
\* returned.
tokenize(state, timeout, now, e, d2u, d3u) ==
    CASE state = "INTERWORD" /\ e = FALL ->
            [state |-> "SHORT", timeout |-> U16(now + d2u), ret |-> NO_SYMBOL]
      [] state = "SHORT" /\ e = RISE ->
            [state |-> "INTERELEMENT", timeout |-> U16(now + d2u),
             ret |-> DOT]
      [] state = "SHORT" /\ e # RISE /\ expired(now, timeout) ->
            [state |-> "LONG", timeout |-> timeout, ret |-> NO_SYMBOL]
      [] state = "LONG" /\ e = RISE ->
            [state |-> "INTERELEMENT", timeout |-> U16(now + d2u),
             ret |-> DASH]
      [] state = "INTERELEMENT" /\ e = FALL ->
            [state |-> "SHORT", timeout |-> U16(now + d2u), ret |-> NO_SYMBOL]
      [] state = "INTERELEMENT" /\ e # FALL /\ expired(now, timeout) ->
            [state |-> "INTERCHARACTER", timeout |-> U16(now + d3u),
             ret |-> END_OF_CHAR]
      [] state = "INTERCHARACTER" /\ e = FALL ->
            [state |-> "SHORT", timeout |-> U16(now + d2u), ret |-> NO_SYMBOL]
      [] state = "INTERCHARACTER" /\ e # FALL /\ expired(now, timeout) ->
            [state |-> "INTERWORD", timeout |-> timeout, ret |-> END_OF_WORD]
      [] OTHER ->
            [state |-> state, timeout |-> timeout, ret |-> NO_SYMBOL]

(***************************************************************************)
(* Decoder.                                                                *)
(***************************************************************************)
CODE_LENGTH == 59

\* morse_code[i] of the source is morse_code[i + 1] here.
morse_code ==
    << 363, 694, 221,   0, 375,   0,  61, 853, 214, 726,   0, 109,
       698, 190, 365, 110, 682, 341, 171,  87,  47,  31,  62, 122,
       234, 426, 490, 438,   0,  94,   0, 235, 437,   5,  30,  54,
        14,   1,  27,  26,  15,   3,  85,  22,  29,  10,   6,  42,
        53,  90,  13,   7,   2,  11,  23,  21,  46,  86,  58 >>

CH_SPACE   == 32    \* ' '
CH_INVALID == 35    \* '#'
CH_BLANK   == 95    \* '_'
NO_CHAR    == 0     \* decode() returns 0: not a full character yet

RECURSIVE Lookup(_, _)
\* The for loop of code_to_char: the first index i >= start with
\* morse_code[i] = code, or CODE_LENGTH.
Lookup(code, i) ==
    IF i < CODE_LENGTH /\ morse_code[i + 1] # code
    THEN Lookup(code, i + 1)
    ELSE i

\* Faulty variant: "0 means '_'" taken to be about the code number.
code_to_char_zero(code) ==
    LET i == Lookup(code, 0)
    IN  IF code = 0 THEN CH_BLANK
        ELSE IF i = 0 THEN CH_BLANK
        ELSE IF i < CODE_LENGTH THEN CH_SPACE + i
        ELSE CH_INVALID

\* Faulty variant: a code that is not found gives the last character of the table.
code_to_char_nofail(code) ==
    LET i == Lookup(code, 0)
    IN  IF i = 0 THEN CH_BLANK
        ELSE IF i < CODE_LENGTH THEN CH_SPACE + i
        ELSE CH_SPACE + CODE_LENGTH - 1

code_to_char(code) ==
    LET i == Lookup(code, 0)
    IN  IF i = 0 THEN CH_BLANK
        ELSE IF i < CODE_LENGTH THEN CH_SPACE + i
        ELSE CH_INVALID

\* Faulty variant: DASH does not fall through a first shift (adds 1 like DOT).
decode_nodash(symbol, code, bitmask) ==
    CASE symbol \in {DOT, DASH} ->
            [code |-> BitOr(code, bitmask), bitmask |-> U16(bitmask * 2),
             ret |-> NO_CHAR]
      [] symbol = END_OF_CHAR ->
            [code |-> 0, bitmask |-> 1, ret |-> code_to_char(code)]
      [] symbol = END_OF_WORD ->
            [code |-> code, bitmask |-> bitmask, ret |-> CH_SPACE]
      [] OTHER ->
            [code |-> code, bitmask |-> bitmask, ret |-> NO_CHAR]

\* Faulty variant: END_OF_CHAR forgets to reset the accumulator.
decode_noreset(symbol, code, bitmask) ==
    CASE symbol = DASH ->
            LET b == U16(bitmask * 2)
            IN  [code |-> BitOr(code, b), bitmask |-> U16(b * 2),
                 ret |-> NO_CHAR]
      [] symbol = DOT ->
            [code |-> BitOr(code, bitmask), bitmask |-> U16(bitmask * 2),
             ret |-> NO_CHAR]
      [] symbol = END_OF_CHAR ->
            [code |-> code, bitmask |-> bitmask, ret |-> code_to_char(code)]
      [] symbol = END_OF_WORD ->
            [code |-> code, bitmask |-> bitmask, ret |-> CH_SPACE]
      [] OTHER ->
            [code |-> code, bitmask |-> bitmask, ret |-> NO_CHAR]

\* Faulty variant: END_OF_WORD resets the accumulator as END_OF_CHAR does.
decode_word_reset(symbol, code, bitmask) ==
    CASE symbol = DASH ->
            LET b == U16(bitmask * 2)
            IN  [code |-> BitOr(code, b), bitmask |-> U16(b * 2),
                 ret |-> NO_CHAR]
      [] symbol = DOT ->
            [code |-> BitOr(code, bitmask), bitmask |-> U16(bitmask * 2),
             ret |-> NO_CHAR]
      [] symbol = END_OF_CHAR ->
            [code |-> 0, bitmask |-> 1, ret |-> code_to_char(code)]
      [] symbol = END_OF_WORD ->
            [code |-> 0, bitmask |-> 1, ret |-> CH_SPACE]
      [] OTHER ->
            [code |-> code, bitmask |-> bitmask, ret |-> NO_CHAR]

\* Faulty variant: the bit shifted out of bitmask comes back in at bit 0.
decode_rotate(symbol, code, bitmask) ==
    CASE symbol = DASH ->
            LET b == U16(bitmask * 2) + (bitmask \div HALF)
                b2 == U16(b * 2) + (b \div HALF)
            IN  [code |-> BitOr(code, b), bitmask |-> b2, ret |-> NO_CHAR]
      [] symbol = DOT ->
            [code |-> BitOr(code, bitmask),
             bitmask |-> U16(bitmask * 2) + (bitmask \div HALF),
             ret |-> NO_CHAR]
      [] symbol = END_OF_CHAR ->
            [code |-> 0, bitmask |-> 1, ret |-> code_to_char(code)]
      [] symbol = END_OF_WORD ->
            [code |-> code, bitmask |-> bitmask, ret |-> CH_SPACE]
      [] OTHER ->
            [code |-> code, bitmask |-> bitmask, ret |-> NO_CHAR]

\* decode(symbol) on the statics (code, bitmask): the new statics and the
\* value returned.
decode(symbol, code, bitmask) ==
    CASE symbol = DASH ->
            LET b == U16(bitmask * 2)                \* add a 0
            IN  [code |-> BitOr(code, b), bitmask |-> U16(b * 2),
                 ret |-> NO_CHAR]
      [] symbol = DOT ->
            [code |-> BitOr(code, bitmask), bitmask |-> U16(bitmask * 2),
             ret |-> NO_CHAR]
      [] symbol = END_OF_CHAR ->
            [code |-> 0, bitmask |-> 1, ret |-> code_to_char(code)]
      [] symbol = END_OF_WORD ->
            [code |-> code, bitmask |-> bitmask, ret |-> CH_SPACE]
      [] OTHER ->
            [code |-> code, bitmask |-> bitmask, ret |-> NO_CHAR]

RECURSIVE Encode(_, _, _)
\* The translation loop of tools/make-code-table.c on a sequence of DOT and
\* DASH: the code number, in an unsigned int (not truncated to 16 bits).
Encode(s, code, bitmask) ==
    IF s = << >> THEN code
    ELSE LET b == IF Head(s) = DASH THEN bitmask * 2 ELSE bitmask
         IN  Encode(Tail(s), BitOr(code, b), b * 2)

CodeOf(s) == Encode(s, 0, 1)

(***************************************************************************)
(* Software UART transmitter.                                              *)
(***************************************************************************)
\* x >> 1 on an int16_t (an arithmetic shift with avr-gcc).
Shr1(x) == (x - (x % 2)) \div 2

\* (uint8_t) x
U8(x) == x % 256

\* A frame: the start bit, 8 data bits and the stop bit that
\* (0x0100 | (uint8_t)c) << 1 holds.
FRAME_BITS == 10

\* uart_putchar(): the value loaded in uart_shift_register.
uart_load(ch) == BitOr(256, U8(ch)) * 2

\* Faulty variant: the end of the frame is tested before the shift.
isr_compb_early(sr) ==
    [tx |-> sr % 2, sr |-> Shr1(sr), off |-> U8(sr) = 0]

\* Faulty variant: the end of the frame is tested on the whole register.
isr_compb_word(sr) ==
    [tx |-> sr % 2, sr |-> Shr1(sr), off |-> Shr1(sr) = 0]

\* ISR(TIM0_COMPB_vect) on uart_shift_register = sr: the level written to
\* the TX pin, the new shift register, and whether OCIE0B is cleared.
isr_compb(sr) ==
    LET shifted == Shr1(sr)
    IN  [tx |-> sr % 2, sr |-> shifted, off |-> U8(shifted) = 0]

(***************************************************************************)
(* State.                                                                  *)
(***************************************************************************)
VARIABLES
    system_tics,  \* volatile uint16_t system_tics
    phase,        \* timer 0: the compare match that comes next, "A" or "B"
    polled,       \* main-loop steps taken since the last TIM0_COMPA, up to 2
    delay_1u,     \* set_delays(): 1, 2 and 3 Morse time units, in tics
    delay_2u,
    delay_3u,
    pc,           \* main(): the call the loop makes next
    key,          \* PINB, KEY_PIN: TRUE when the key was last read down
    led,          \* PORTB, LED_PIN
    edge_state,   \* get_edge(): static state
    edge_timeout, \* get_edge(): static timeout
    eNow,         \* get_edge(): now, at its last call
    edge,         \* main(): edge
    tok_state,    \* tokenize(): static state
    tok_timeout,  \* tokenize(): static timeout
    tNow,         \* tokenize(): now, at its last call
    sym,          \* main(): sym, the symbol last passed to decode()
    code,         \* decode(): static code
    bitmask,      \* decode(): static bitmask
    c,            \* main(): c, the value decode() last returned
    uart_shift_register,  \* volatile int16_t uart_shift_register
    txie,         \* TIMSK0, OCIE0B: the TIM0_COMPB interrupt is enabled
    tx,           \* PORTB, TX_PIN
    \* History, read by the properties only.
    scene,        \* "idle" until the first FALL, then "mark", then "gap"
                  \* from the RISE, then "next" from the FALL that follows
    prevEdgeState,\* edge_state before the last call of get_edge()
    relSince,     \* eNow at the first of the current run of released
                  \* readings (eNow itself while the key is read down)
    eEval,        \* the last call of get_edge() evaluated expired(): how far
                  \* ahead of now its timeout was, modulo 2^16; else -1
    eArm,         \* the last call of get_edge() armed its timeout: how far
                  \* ahead of now; else -1
    tEval,        \* the same for the last call of tokenize()
    tArm,
    edgeNow,      \* tNow when tokenize() last received an edge
    markDur,      \* in the poll of a RISE: tics since the FALL, as
                  \* tokenize() saw them; -1 in every other poll
    gapDur,       \* in the poll of a FALL after a mark: tics since the
                  \* RISE; -1 in every other poll
    gapSyms,      \* END_OF_CHAR / END_OF_WORD returned since the last RISE
    sent,         \* bytes the main loop passed to uart_putchar()
    nEdges,       \* number of edges tokenize() has received
    seg,          \* scripted keying: the mark (odd) or gap (even) of the
                  \* key plan that is being keyed; 0 before the first press
    segStart,     \* scripted keying: eNow when seg began
    okStated,     \* scripted keying: every mark and gap so far was, as
                  \* tokenize() saw it, in the class the plan gives it,
                  \* with the classes as stated (gaps [2u,3u) and >= 3u)
    okAmended,    \* the same, with the classes as amended
    frame,        \* levels written to TX since the last uart_putchar()
    txByte,       \* the byte last passed to uart_putchar(), -1 before
    clean,        \* the last uart_putchar() found no frame in flight
    sincePut,     \* tics since the last uart_putchar(), counted up to
                  \* delay_2u; -1 before the first call
    putGap,       \* sincePut when uart_putchar() was last called
    fed,          \* DOT/DASH passed to decode() since its last reset
    lastFed,      \* fed before the last call of decode()
    lastCode,     \* code before the last call of decode()
    lastBitmask,  \* bitmask before the last call of decode()
    lastInvalid,  \* the last END_OF_CHAR returned '#'
    prevInvalid,  \* the END_OF_CHAR before the last one returned '#'
    x_t0,         \* tic comparison: the time the timeout was armed at
    x_h,          \* tic comparison: how far ahead it was armed
    x_k,          \* tic comparison: tics since it was armed, -1 before
    x_res,        \* tic comparison: what expired() returned
    \* tics() and the interrupt that competes with it.
    iflag,        \* SREG, I: interrupts are enabled
    pendA,        \* TIFR0, OCF0A: a compare match A waits to be served
    t_pc,         \* tics(): "idle", or the byte it reads next, "lo" or "hi"
    t_lo,         \* tics(): low byte of system_tics_copy
    t_ret,        \* the value tics() last returned, -1 before
    t_prev,       \* the value it returned the time before, -1 before
    t_during,     \* the values system_tics has held during the call
    t_calls,      \* number of calls of tics()
    t_matches,    \* number of compare matches A of timer 0
    \* invite() and delay().
    i_pc,         \* invite(): the statement that comes next
    i_code,       \* invite(): uint8_t code
    i_timeout,    \* delay(): timeout
    i_from,       \* delay(): the value of tics() it was computed from
    i_n,          \* delay(): tick_count
    i_short,      \* a delay() has returned before tick_count tics elapsed
    ledAt,        \* system_tics when the LED was last switched
    phases        \* tics the LED spent in each phase it has completed

clkVars  == << system_tics, phase, polled >>
cfgVars  == << delay_1u, delay_2u, delay_3u >>
edgeVars == << key, led, edge_state, edge_timeout, eNow, edge >>
tokVars  == << tok_state, tok_timeout, tNow >>
decVars  == << sym, code, bitmask, c >>
uartVars == << uart_shift_register, txie, tx >>
mainVars == << pc, scene, sent >>
keyVars  == << seg, segStart >>
planHist == << nEdges, okStated, okAmended >>
edgeHist == << prevEdgeState, relSince, eEval, eArm >>
tokHist  == << edgeNow, markDur, gapDur, gapSyms, tEval, tArm >>
uartHist == << frame, txByte, clean >>
putHist  == << sincePut, putGap >>
decHist  == << fed, lastFed, lastCode, lastBitmask, lastInvalid,
               prevInvalid >>
expVars  == << x_t0, x_h, x_k, x_res >>
ticsVars == << iflag, pendA, t_pc, t_lo, t_ret, t_prev, t_during, t_calls,
              t_matches >>
invVars  == << i_pc, i_code, i_timeout, i_from, i_n, i_short, ledAt,
              phases >>

vars == << clkVars, cfgVars, edgeVars, tokVars, decVars, uartVars, mainVars,
           keyVars, edgeHist, tokHist, planHist, uartHist, putHist, decHist,
           expVars, ticsVars, invVars >>

(***************************************************************************)
(* The state when main() enters its loop, for a speed selection and a      *)
(* value of the tic counter.  The statics are as initialised; the key has  *)
(* not been touched.  Booted is all of it but the position in invite().    *)
(***************************************************************************)
Booted(speed, t) ==
    LET d == set_delays(speed)
    IN  /\ system_tics = t
        /\ phase = "A"
        /\ polled = 0
        /\ delay_1u = d.delay_1u
        /\ delay_2u = d.delay_2u
        /\ delay_3u = d.delay_3u
        /\ pc = "get_edge"
        /\ key = FALSE
        /\ led = FALSE
        /\ edge_state = "UP"
        /\ edge_timeout = 0
        /\ eNow = t
        /\ edge = NO_EDGE
        /\ tok_state = "INTERWORD"
        /\ tok_timeout = 0
        /\ tNow = t
        /\ sym = NO_SYMBOL
        /\ code = 0
        /\ bitmask = 1
        /\ c = NO_CHAR
        /\ uart_shift_register = 0
        /\ txie = FALSE
        /\ tx = 1                      \* init_uart(): TX idles HIGH
        /\ scene = "idle"
        /\ nEdges = 0
        /\ seg = 0
        /\ segStart = t
        /\ okStated = TRUE
        /\ okAmended = TRUE
        /\ prevEdgeState = "UP"
        /\ relSince = t
        /\ edgeNow = t
        /\ markDur = -1
        /\ gapDur = -1
        /\ gapSyms = << >>
        /\ sent = << >>
        /\ frame = << >>
        /\ txByte = -1
        /\ clean = TRUE
        /\ fed = << >>
        /\ lastFed = << >>
        /\ lastCode = 0
        /\ lastBitmask = 1
        /\ lastInvalid = FALSE
        /\ prevInvalid = FALSE
        /\ sincePut = -1
        /\ putGap = -1
        /\ eEval = -1
        /\ eArm = -1
        /\ tEval = -1
        /\ tArm = -1
        /\ iflag = TRUE                \* sei()
        /\ pendA = FALSE
        /\ t_pc = "idle"
        /\ t_lo = 0
        /\ t_ret = -1
        /\ t_prev = -1
        /\ t_during = {}
        /\ t_calls = 0
        /\ t_matches = 0
        /\ i_timeout = 0
        /\ i_from = 0
        /\ i_n = 0
        /\ i_short = FALSE
        /\ ledAt = -1                  \* the LED has not been switched
        /\ phases = << >>

\* invite() has returned.
Startup(speed, t) ==
    /\ Booted(speed, t)
    /\ i_pc = "done"
    /\ i_code = 0

\* expired() has not been probed.
NoProbe ==
    /\ x_t0 = 0
    /\ x_h = 0
    /\ x_k = -1
    /\ x_res = FALSE

(***************************************************************************)
(* Interrupts.                                                             *)
(***************************************************************************)
\* ISR(TIM0_COMPB_vect), which runs only while OCIE0B is set.
TIM0_COMPB ==
    LET r == isr_compb(uart_shift_register)
    IN  /\ txie
        /\ tx' = r.tx
        /\ uart_shift_register' = r.sr
        /\ txie' = ~r.off
        /\ frame' = Append(frame, r.tx)
        /\ UNCHANGED << txByte, clean, putHist >>

\* uart_putchar(ch).
uart_putchar(ch) ==
    /\ uart_shift_register' = uart_load(ch)
    /\ txie' = TRUE
    /\ tx' = tx
    /\ frame' = << >>
    /\ txByte' = ch
    /\ clean' = ~txie
    /\ sincePut' = 0
    /\ putGap' = sincePut

\* ISR(TIM0_COMPA_vect).  A tic is 1000 CPU cycles and the main loop takes
\* far less: it calls get_edge() and tokenize() at least once in every tic.
Tic ==
    /\ phase = "A"
    /\ polled >= 2
    /\ system_tics' = U16(system_tics + 1)
    /\ phase' = "B"
    /\ polled' = 0
    /\ sincePut' = IF sincePut \in 0..(delay_2u - 1) THEN sincePut + 1
                   ELSE sincePut
    /\ UNCHANGED << cfgVars, edgeVars, tokVars, decVars, uartVars, mainVars,
                    keyVars, planHist, edgeHist, tokHist, uartHist, putGap,
                    decHist, expVars, ticsVars, invVars >>

\* The compare match B of timer 0, half a period after the match A.
CompareMatchB ==
    /\ phase = "B"
    /\ phase' = "A"
    /\ IF txie THEN TIM0_COMPB
               ELSE UNCHANGED << uartVars, uartHist, putHist >>
    /\ UNCHANGED << system_tics, polled, cfgVars, edgeVars, tokVars, decVars,
                    mainVars, keyVars, planHist, edgeHist, tokHist, decHist,
                    expVars, ticsVars, invVars >>

(***************************************************************************)
(* The main loop.                                                          *)
(***************************************************************************)
\* edge = get_edge(), with the key read down or up.
GetEdgeCall(down) ==
    LET now == system_tics
        r == get_edge(edge_state, edge_timeout, now, down)
    IN  /\ pc = "get_edge"
        /\ pc' = "tokenize"
        /\ polled' = IF polled < 2 THEN polled + 1 ELSE polled
        /\ key' = down
        /\ eNow' = now
        /\ edge_state' = r.state
        /\ edge_timeout' = r.timeout
        /\ edge' = r.ret
        /\ led' = CASE r.led = "on" -> TRUE
                    [] r.led = "off" -> FALSE
                    [] OTHER -> led
        /\ prevEdgeState' = edge_state
        /\ relSince' = IF down \/ key THEN now ELSE relSince
        /\ eEval' = IF edge_state = "BOUNCING" /\ ~down
                     THEN U16(edge_timeout - now) ELSE -1
        /\ eArm' = IF edge_state = "DOWN" /\ ~down
                    THEN U16(r.timeout - now) ELSE -1
        /\ UNCHANGED << system_tics, phase, cfgVars, tokVars, decVars,
                        uartVars, scene, sent, planHist, tokHist, uartHist,
                        putHist, decHist, expVars, ticsVars, invVars >>

\* The classes of the marks and gaps of the key pattern of SOS, ... --- ...
\* and the gap that trails it: SOSPlan[i] is what seg = i keys.
SOSPlan ==
    << "dot", "elem", "dot", "elem", "dot", "char",
       "dash", "elem", "dash", "elem", "dash", "char",
       "dot", "elem", "dot", "elem", "dot", "trail" >>

\* A duration d, as tokenize() saw it, is in class cl as stated: a dot or an
\* inter-element gap is shorter than 2u, a dash 2u or more, an
\* inter-character gap in [2u, 3u), the trailing gap 3u or more.
InClassStated(cl, d) ==
    CASE cl \in {"dot", "elem"} -> d < delay_2u
      [] cl = "dash" -> d >= delay_2u
      [] cl = "char" -> delay_2u <= d /\ d < delay_3u
      [] OTHER -> d >= delay_3u

\* The same as amended: a dash is longer than 2u, an inter-character gap
\* longer than 2u and shorter than 3u, the trailing gap longer than 2u + 3u.
InClassAmended(cl, d) ==
    CASE cl \in {"dot", "elem"} -> d < delay_2u
      [] cl = "dash" -> d > delay_2u
      [] cl = "char" -> delay_2u < d /\ d < delay_3u
      [] OTHER -> d > delay_2u + delay_3u

\* sym = tokenize(edge); c = decode(sym); if (c) uart_putchar(c);
MainTokenize ==
    LET now == system_tics
        t == tokenize(tok_state, tok_timeout, now, edge, delay_2u, delay_3u)
        d == decode(t.ret, code, bitmask)
        dur == U16(now - edgeNow)
        planned == edge # NO_EDGE /\ seg > 0 /\ nEdges \in 1..Len(SOSPlan)
    IN  /\ pc = "tokenize"
        /\ pc' = "get_edge"
        /\ polled' = IF polled < 2 THEN polled + 1 ELSE polled
        /\ tNow' = now
        /\ tok_state' = t.state
        /\ tok_timeout' = t.timeout
        /\ sym' = t.ret
        /\ code' = d.code
        /\ bitmask' = d.bitmask
        /\ c' = d.ret
        /\ IF d.ret # NO_CHAR
           THEN uart_putchar(d.ret) /\ sent' = Append(sent, d.ret)
           ELSE UNCHANGED << uartVars, uartHist, putHist, sent >>
        /\ scene' = CASE edge = FALL /\ scene = "idle" -> "mark"
                      [] edge = RISE /\ scene \in {"mark", "next"} -> "gap"
                      [] edge = FALL /\ scene = "gap" -> "next"
                      [] OTHER -> scene
        /\ edgeNow' = IF edge # NO_EDGE THEN now ELSE edgeNow
        /\ markDur' = IF edge = RISE THEN dur ELSE -1
        /\ gapDur' = IF edge = FALL /\ scene = "gap" THEN dur ELSE -1
        /\ gapSyms' = CASE edge = RISE -> << >>
                        [] t.ret \in {END_OF_CHAR, END_OF_WORD} ->
                              Append(gapSyms, t.ret)
                        [] OTHER -> gapSyms
        /\ nEdges' = IF edge # NO_EDGE THEN nEdges + 1 ELSE nEdges
        /\ okStated' = IF planned
                       THEN okStated /\ InClassStated(SOSPlan[nEdges], dur)
                       ELSE okStated
        /\ okAmended' = IF planned
                        THEN okAmended /\ InClassAmended(SOSPlan[nEdges], dur)
                        ELSE okAmended
        /\ tEval' = IF \/ (tok_state = "SHORT" /\ edge # RISE)
                        \/ (tok_state \in {"INTERELEMENT", "INTERCHARACTER"}
                               /\ edge # FALL)
                     THEN U16(tok_timeout - now) ELSE -1
        /\ tArm' = IF t.state # tok_state /\ t.state \in
                          {"SHORT", "INTERELEMENT", "INTERCHARACTER"}
                    THEN U16(t.timeout - now) ELSE -1
        /\ lastCode' = code
        /\ lastBitmask' = bitmask
        /\ UNCHANGED << system_tics, phase, cfgVars, edgeVars, keyVars,
                        edgeHist, fed, lastFed, lastInvalid, prevInvalid,
                        expVars, ticsVars, invVars >>

(***************************************************************************)
(* The program: the main loop and the two interrupts, for every speed      *)
(* selection and every key input, through one mark (with its bounces) and  *)
(* the gap that follows it, up to the poll that consumes the next FALL.    *)
(***************************************************************************)
StartTics == {0, WORD - 4}

Init == \E speed \in 0..3, t \in StartTics : Startup(speed, t) /\ NoProbe

\* How long the present scene is followed, in tics.
Horizon ==
    CASE scene = "idle" -> MaxIdle
      [] scene = "mark" -> MaxMarkUnits * delay_1u
      [] scene = "gap" -> MaxGapUnits * delay_1u
      [] OTHER -> 0

TIM0_COMPA ==
    /\ U16(system_tics - edgeNow) < Horizon
    /\ Tic

MainGetEdge(down) ==
    /\ scene # "next"
    /\ GetEdgeCall(down)
    /\ UNCHANGED keyVars

Next ==
    \/ \E down \in BOOLEAN : MainGetEdge(down)
    \/ MainTokenize
    \/ TIM0_COMPA
    \/ CompareMatchB

Spec == Init /\ [][Next]_vars

(***************************************************************************)
(* The program keyed with the pattern of SOS and then pressed once more:   *)
(* dots and inter-element gaps of 1u, dashes of 3u, as the key is read,    *)
(* and every inter-character gap and trailing gap from 2u and 3u up.       *)
(***************************************************************************)
\* The shortest and the longest that seg is keyed, in tics between the poll
\* that first reads it and the poll that first reads what follows it.  The
\* RISE comes DEBOUNCE_TIME after the release is read, so tokenize() sees a
\* gap that much shorter than the key's.
KeyLo(i) ==
    CASE i = 0 -> 0
      [] SOSPlan[i] \in {"dot", "elem"} -> delay_1u
      [] SOSPlan[i] = "dash" -> delay_3u
      [] SOSPlan[i] = "char" -> delay_2u
      [] OTHER -> delay_3u

KeyHi(i) ==
    CASE i = 0 -> MaxIdle
      [] SOSPlan[i] \in {"dot", "elem"} -> delay_1u
      [] SOSPlan[i] = "dash" -> delay_3u
      [] SOSPlan[i] = "char" -> delay_3u + DEBOUNCE_TIME + 1
      [] OTHER -> MaxGapUnits * delay_1u + DEBOUNCE_TIME + 1

\* The key is down in the odd segments, and in the press that follows the
\* trailing gap.
KeyLevel(i) == i % 2 = 1

\* The two fastest speed selections (the others differ in the delays only);
\* the tic counter rolls over while the first S is keyed.
InitSOS ==
    \E speed \in 0..1 :
        Startup(speed, WORD - set_delays(speed).delay_3u) /\ NoProbe

TIM0_COMPA_SOS ==
    /\ seg <= Len(SOSPlan)
    /\ U16(system_tics - segStart) < KeyHi(seg)
    /\ Tic

\* The key goes on being read as seg has it.
MainGetEdgeHold ==
    /\ nEdges <= Len(SOSPlan)
    /\ seg <= Len(SOSPlan) => U16(system_tics - segStart) < KeyHi(seg)
    /\ GetEdgeCall(KeyLevel(seg))
    /\ UNCHANGED keyVars

\* The key is read changed: the next segment begins.
MainGetEdgeChange ==
    /\ seg <= Len(SOSPlan)
    /\ U16(system_tics - segStart) >= KeyLo(seg)
    /\ GetEdgeCall(~KeyLevel(seg))
    /\ seg' = seg + 1
    /\ segStart' = system_tics

NextSOS ==
    \/ MainGetEdgeHold
    \/ MainGetEdgeChange
    \/ MainTokenize
    \/ TIM0_COMPA_SOS
    \/ CompareMatchB

SpecSOS == InitSOS /\ [][NextSOS]_vars

(***************************************************************************)
(* The program keyed freely through two marks in a row, to the press that  *)
(* follows them: short marks, the gap after the first followed until the   *)
(* word has ended, the gap after the second until the character has.       *)
(***************************************************************************)
HorizonPair ==
    CASE nEdges = 0 -> MaxIdle
      [] nEdges = 2 -> delay_2u + delay_3u + 1
      [] nEdges = 4 -> delay_2u + 1
      [] nEdges >= MaxPairEdges -> 0
      [] OTHER -> MaxPairMark

TIM0_COMPA_Pair ==
    /\ U16(system_tics - edgeNow) < HorizonPair
    /\ Tic

MainGetEdgePair(down) ==
    /\ nEdges < MaxPairEdges
    /\ GetEdgeCall(down)
    /\ UNCHANGED keyVars

NextPair ==
    \/ \E down \in BOOLEAN : MainGetEdgePair(down)
    \/ MainTokenize
    \/ TIM0_COMPA_Pair
    \/ CompareMatchB

SpecPair == Init /\ [][NextPair]_vars

(***************************************************************************)
(* The decoder driven by every symbol sequence.                            *)
(***************************************************************************)
InitDecode == Startup(0, 0) /\ NoProbe

\* c = decode(s).
FeedDecode(s) ==
    LET r == decode(s, code, bitmask)
    IN  /\ code' = r.code
        /\ bitmask' = r.bitmask
        /\ c' = r.ret
        /\ sym' = s
        /\ lastFed' = fed
        /\ lastCode' = code
        /\ lastBitmask' = bitmask
        /\ fed' = CASE s \in {DOT, DASH} -> Append(fed, s)
                    [] s = END_OF_CHAR -> << >>
                    [] OTHER -> fed
        /\ lastInvalid' = IF s = END_OF_CHAR THEN r.ret = CH_INVALID
                          ELSE lastInvalid
        /\ prevInvalid' = IF s = END_OF_CHAR THEN lastInvalid
                          ELSE prevInvalid
        /\ UNCHANGED << clkVars, cfgVars, edgeVars, tokVars, uartVars,
                        mainVars, keyVars, planHist, edgeHist, tokHist,
                        uartHist, putHist, expVars, ticsVars, invVars >>

CallDecode(s) ==
    /\ s \in {DOT, DASH} => Len(fed) < MaxSyms
    /\ FeedDecode(s)

NextDecode == \E s \in Symbols : CallDecode(s)

SpecDecode == InitDecode /\ [][NextDecode]_vars

(***************************************************************************)
(* The decoder driven by characters of any length: DOT and DASH until they *)
(* overflow the accumulator, then END_OF_CHAR.                             *)
(***************************************************************************)
\* The bits that decode() gives the symbols of s: 1 per DOT, 2 per DASH.
Bits(s) == Len(s) + Cardinality({i \in 1..Len(s) : s[i] = DASH})

CallDecodeLong(s) ==
    /\ s \in {DOT, DASH} => Bits(fed) < MaxBits
    /\ FeedDecode(s)

NextDecodeLong == \E s \in {DOT, DASH, END_OF_CHAR} : CallDecodeLong(s)

SpecDecodeLong == InitDecode /\ [][NextDecodeLong]_vars

(***************************************************************************)
(* The transmitter driven by every byte, at every moment.                  *)
(***************************************************************************)
InitUart == Startup(0, 0) /\ NoProbe

CallPutchar(b) ==
    /\ uart_putchar(b)
    /\ UNCHANGED << clkVars, cfgVars, edgeVars, tokVars, decVars, mainVars,
                    keyVars, planHist, edgeHist, tokHist, decHist, expVars,
                    ticsVars, invVars >>

TransmitTick ==
    /\ TIM0_COMPB
    /\ UNCHANGED << clkVars, cfgVars, edgeVars, tokVars, decVars, mainVars,
                    keyVars, planHist, edgeHist, tokHist, decHist, expVars,
                    ticsVars, invVars >>

NextUart ==
    \/ \E b \in 0..255 : CallPutchar(b)
    \/ TransmitTick

SpecUart == InitUart /\ [][NextUart]_vars

(***************************************************************************)
(* invite(), from its call in main() to its return, with the tic interrupt *)
(* running.  The loop of delay() calls tics() many times in a tic.         *)
(***************************************************************************)
\* uint8_t code = 22;  -.- = K
INVITE_CODE == 22

\* Faulty variant: the timeout is one tic early.
delay_timeout_short(now, tick_count) == U16(now + tick_count - 1)

\* delay(): timeout = tics() + tick_count
delay_timeout(now, tick_count) == U16(now + tick_count)

\* main() calls invite() right after sei(): the tic counter is still 0.
\* The two fastest speed selections (the others differ in the delays only).
InitInvite ==
    \E speed \in 0..1 :
        /\ Booted(speed, 0)
        /\ NoProbe
        /\ i_pc = "while"
        /\ i_code = INVITE_CODE

\* ISR(TIM0_COMPA_vect), once invite() has run a statement since the last.
InviteTic ==
    /\ i_pc # "done"
    /\ polled >= 1
    /\ system_tics' = U16(system_tics + 1)
    /\ polled' = 0
    /\ UNCHANGED << led, invVars, cfgVars, key, edge_state, edge_timeout,
                    eNow, edge, tokVars, decVars, uartVars, mainVars, keyVars,
                    planHist, edgeHist, tokHist, uartHist, putHist, decHist,
                    expVars, ticsVars, phase >>

\* PORTB, LED_PIN is written: the phase that ends is logged.
SwitchLed(on) ==
    /\ led' = on
    /\ ledAt' = IF led = on /\ ledAt # -1 THEN ledAt ELSE system_tics
    /\ phases' = IF led = on \/ ledAt = -1 THEN phases
                 ELSE Append(phases, U16(system_tics - ledAt))

invRest ==
    << system_tics, cfgVars, key, edge_state, edge_timeout, eNow, edge,
       tokVars, decVars, uartVars, mainVars, keyVars, planHist, edgeHist,
       tokHist, uartHist, putHist, decHist, expVars, ticsVars, phase >>

\* while (code): the loop goes on, or invite() returns.
InviteWhile ==
    /\ i_pc = "while"
    /\ polled' = 1
    /\ IF i_code # 0
       THEN /\ i_pc' = "on"
            /\ UNCHANGED << led, ledAt, phases >>
       ELSE /\ i_pc' = "done"
            /\ led' = led
            /\ ledAt' = system_tics
            /\ phases' = Append(phases, U16(system_tics - ledAt))
    /\ UNCHANGED << i_code, i_timeout, i_from, i_n, i_short, invRest >>

\* LED on; if ((code & 1) == 0) a dash, else a dot.
InviteLedOn ==
    /\ i_pc = "on"
    /\ polled' = 1
    /\ SwitchLed(TRUE)
    /\ i_pc' = IF i_code % 2 = 0 THEN "dash" ELSE "dot"
    /\ UNCHANGED << i_code, i_timeout, i_from, i_n, i_short, invRest >>

\* delay(tick_count) is entered: timeout = tics() + tick_count.
DelayEnter(at, tick_count, to) ==
    /\ i_pc = at
    /\ polled' = 1
    /\ i_pc' = to
    /\ i_timeout' = delay_timeout(system_tics, tick_count)
    /\ i_from' = system_tics
    /\ i_n' = tick_count
    /\ UNCHANGED << i_code, i_short, led, ledAt, phases, invRest >>

\* while (!expired(tics(), timeout)) ;  and the return, to the statement to.
DelayLoop(at, to) ==
    /\ i_pc = at
    /\ polled' = 1
    /\ IF expired(system_tics, i_timeout)
       THEN /\ i_pc' = to
            /\ i_short' = (i_short \/ U16(system_tics - i_from) < i_n)
       ELSE UNCHANGED << i_pc, i_short >>
    /\ UNCHANGED << i_code, i_timeout, i_from, i_n, led, ledAt, phases,
                    invRest >>

\* code >>= 1, after the delay(delay_2u) of a dash.
InviteShift ==
    /\ i_pc = "dash_shift"
    /\ polled' = 1
    /\ i_code' = i_code \div 2
    /\ i_pc' = "dot"
    /\ UNCHANGED << i_timeout, i_from, i_n, i_short, led, ledAt, phases,
                    invRest >>

\* code >>= 1; LED off.
InviteLedOff ==
    /\ i_pc = "off"
    /\ polled' = 1
    /\ i_code' = i_code \div 2
    /\ SwitchLed(FALSE)
    /\ i_pc' = "gap"
    /\ UNCHANGED << i_timeout, i_from, i_n, i_short, invRest >>

InviteStep ==
    \/ InviteWhile
    \/ InviteLedOn
    \/ DelayEnter("dash", delay_2u, "dash_wait")
    \/ DelayLoop("dash_wait", "dash_shift")
    \/ InviteShift
    \/ DelayEnter("dot", delay_1u, "dot_wait")
    \/ DelayLoop("dot_wait", "off")
    \/ InviteLedOff
    \/ DelayEnter("gap", delay_1u, "gap_wait")
    \/ DelayLoop("gap_wait", "while")

NextInvite ==
    \/ InviteStep
    \/ InviteTic

\* The timer goes on interrupting, and the processor on executing.
SpecInvite ==
    /\ InitInvite
    /\ [][NextInvite]_vars
    /\ WF_vars(InviteTic)
    /\ WF_vars(InviteStep)

(***************************************************************************)
(* tics() called again and again while timer 0 runs: the two bytes of      *)
(* system_tics are read one after the other, and the compare match A is    *)
(* served, by ISR(TIM0_COMPA_vect), as soon as interrupts are enabled.     *)
(***************************************************************************)
\* Faulty variant: the block leaves the interrupts as they are.
atomic_nocli(i) == i

\* ATOMIC_BLOCK(ATOMIC_FORCEON), on entry: cli().
atomic_cli(i) == FALSE

\* Counter values on both sides of a carry into the high byte.
TicsStarts == {254, 255, WORD - 2, WORD - 1}

InitTics == \E t \in TicsStarts : Startup(0, t) /\ NoProbe

otherVars ==
    << cfgVars, edgeVars, tokVars, decVars, uartVars, mainVars, keyVars,
       planHist, edgeHist, tokHist, uartHist, putHist, decHist, expVars,
       invVars, phase, polled >>

\* The timer reaches OCR0A: OCF0A is set.  The period is 1000 CPU cycles,
\* so that the match before has long been served.
TimerMatchA ==
    /\ ~pendA
    /\ t_matches < MaxTicsRun
    /\ pendA' = TRUE
    /\ t_matches' = t_matches + 1
    /\ UNCHANGED << system_tics, iflag, t_pc, t_lo, t_ret, t_prev, t_during,
                    t_calls, otherVars >>

\* ISR(TIM0_COMPA_vect), entered when OCF0A is set and interrupts enabled.
ServeMatchA ==
    /\ pendA
    /\ iflag
    /\ pendA' = FALSE
    /\ system_tics' = U16(system_tics + 1)
    /\ t_during' = IF t_pc = "idle" THEN t_during
                   ELSE t_during \cup {U16(system_tics + 1)}
    /\ UNCHANGED << iflag, t_pc, t_lo, t_ret, t_prev, t_calls, t_matches,
                    otherVars >>

\* tics() is entered: the atomic block begins.
TicsEnter ==
    /\ t_pc = "idle"
    /\ t_calls < MaxTicsCalls
    /\ t_pc' = "lo"
    /\ iflag' = atomic_cli(iflag)
    /\ t_during' = {system_tics}
    /\ t_calls' = t_calls + 1
    /\ UNCHANGED << system_tics, pendA, t_lo, t_ret, t_prev, t_matches,
                    otherVars >>

\* system_tics_copy = system_tics, the low byte.
TicsReadLow ==
    /\ t_pc = "lo"
    /\ t_pc' = "hi"
    /\ t_lo' = system_tics % 256
    /\ UNCHANGED << system_tics, iflag, pendA, t_ret, t_prev, t_during,
                    t_calls, t_matches, otherVars >>

\* The high byte; the block ends with sei(), and the copy is returned.
TicsReadHigh ==
    /\ t_pc = "hi"
    /\ t_pc' = "idle"
    /\ t_ret' = (system_tics \div 256) * 256 + t_lo
    /\ t_prev' = t_ret
    /\ iflag' = TRUE
    /\ UNCHANGED << system_tics, pendA, t_lo, t_during, t_calls, t_matches,
                    otherVars >>

NextTics ==
    \/ TimerMatchA
    \/ ServeMatchA
    \/ TicsEnter
    \/ TicsReadLow
    \/ TicsReadHigh

SpecTics == InitTics /\ [][NextTics]_vars

(***************************************************************************)
(* expired() applied to a timeout armed x_h tics ahead of the time x_t0,   *)
(* x_k tics later.  The times are taken around 0, 2^15 and 2^16, the       *)
(* horizons around 0 and 2^15, the poll times around the arming, the       *)
(* deadline, the rollover of the counter and the end of the safe window.   *)
(***************************************************************************)
Around(x) == (x - Win)..(x + Win)

T0s == (Around(0) \cup Around(HALF) \cup Around(WORD - 1)) \cap (0..(WORD - 1))

Hs == (Around(0) \cup Around(HALF \div 2) \cup Around(HALF - 1))
          \cap (0..(HALF - 1))

Ks(t0, h) ==
    (Around(0) \cup Around(h) \cup Around(WORD - t0) \cup Around(h + HALF - 1))
        \cap (0..(h + HALF - 1))

InitExpired ==
    /\ Startup(0, 0)
    /\ x_t0 \in T0s
    /\ x_h \in Hs
    /\ x_k = -1
    /\ x_res = FALSE

ApplyExpired(k) ==
    /\ x_k' = k
    /\ x_res' = expired(U16(x_t0 + k), U16(x_t0 + x_h))
    /\ UNCHANGED << x_t0, x_h, clkVars, cfgVars, edgeVars, tokVars, decVars,
                    uartVars, mainVars, keyVars, planHist, edgeHist, tokHist,
                    uartHist, putHist, decHist, ticsVars, invVars >>

NextExpired == \E k \in Ks(x_t0, x_h) : ApplyExpired(k)

SpecExpired == InitExpired /\ [][NextExpired]_vars

(***************************************************************************)
(* expired() applied to pairs (now, deadline) of 16-bit values: now = x_t0 *)
(* around 0, 2^15 and 2^16, and the deadline x_h ahead of it modulo 2^16,  *)
(* x_h around 0, 2^15 and 2^16 as well.                                    *)
(***************************************************************************)
InitCompare ==
    /\ Startup(0, 0)
    /\ x_t0 \in T0s
    /\ x_h \in T0s
    /\ x_k = -1
    /\ x_res = FALSE

ApplyCompare ==
    /\ x_k = -1
    /\ x_k' = 0
    /\ x_res' = expired(x_t0, U16(x_t0 + x_h))
    /\ UNCHANGED << x_t0, x_h, clkVars, cfgVars, edgeVars, tokVars, decVars,
                    uartVars, mainVars, keyVars, planHist, edgeHist, tokHist,
                    uartHist, putHist, decHist, ticsVars, invVars >>

NextCompare == ApplyCompare

SpecCompare == InitCompare /\ [][NextCompare]_vars

(***************************************************************************)
(* Claims about the tokenizer and the edge detector, checked under Spec.   *)
(* Durations are those tokenize() sees: differences of its `now' between   *)
(* the polls that deliver the edges.                                       *)
(***************************************************************************)
\* C1 as stated: at the poll that delivers RISE, a mark shorter than
\* delay_2u returns DOT and a mark of delay_2u or more returns DASH.
C1_Original ==
    markDur >= 0 =>
        /\ markDur < delay_2u => sym = DOT
        /\ markDur >= delay_2u => sym = DASH

\* C1 amended: a mark shorter than delay_2u returns DOT and a mark longer
\* than delay_2u returns DASH; a mark of exactly delay_2u returns DOT or
\* DASH (DOT when the RISE is delivered by the first poll that sees the
\* timeout reached, since SHORT tests the edge before the timeout).
C1_Amended ==
    markDur >= 0 =>
        /\ sym \in {DOT, DASH}
        /\ markDur < delay_2u => sym = DOT
        /\ markDur > delay_2u => sym = DASH

\* A mark one tic longer than delay_2u was returned as DASH.
C1_Witness ==
    /\ markDur = delay_2u + 1
    /\ edge = RISE
    /\ sym = DASH

\* C2 as stated: a gap shorter than delay_2u gives no END_OF_CHAR between
\* the RISE and the next FALL, and a gap in [delay_2u, delay_3u) gives
\* exactly one END_OF_CHAR and no END_OF_WORD.
C2_Original ==
    gapDur >= 0 =>
        /\ gapDur < delay_2u => gapSyms = << >>
        /\ (delay_2u <= gapDur /\ gapDur < delay_3u) =>
              gapSyms = << END_OF_CHAR >>

\* C2 amended: a gap shorter than delay_2u gives no END_OF_CHAR, and a gap
\* longer than delay_2u and shorter than delay_3u gives exactly one
\* END_OF_CHAR and no END_OF_WORD; a gap of exactly delay_2u gives none or
\* one (none when the FALL is delivered by the first poll that sees the
\* timeout reached, since INTERELEMENT tests the edge before the timeout).
C2_Amended ==
    gapDur >= 0 =>
        /\ gapDur < delay_2u => gapSyms = << >>
        /\ (delay_2u < gapDur /\ gapDur < delay_3u) =>
              gapSyms = << END_OF_CHAR >>
        /\ gapDur = delay_2u => gapSyms \in {<< >>, << END_OF_CHAR >>}

\* A gap between delay_2u and delay_3u ended the character only.
C2_Witness ==
    /\ delay_2u < gapDur
    /\ gapDur < delay_3u
    /\ edge = FALL
    /\ gapSyms = << END_OF_CHAR >>
    /\ tok_state = "SHORT"

\* C3 as stated: a gap of delay_3u or more gives END_OF_CHAR followed by
\* END_OF_WORD before the next FALL is consumed.
C3_Original ==
    (gapDur >= 0 /\ gapDur >= delay_3u) =>
        gapSyms = << END_OF_CHAR, END_OF_WORD >>

\* C3 amended: the word timeout of delay_3u is armed when END_OF_CHAR is
\* returned, delay_2u after the RISE.  A gap longer than delay_2u + delay_3u
\* gives END_OF_CHAR followed by END_OF_WORD before the next FALL is
\* consumed; a gap of delay_3u or more that is shorter than
\* delay_2u + delay_3u gives END_OF_CHAR alone; END_OF_WORD never comes
\* without the END_OF_CHAR before it.
C3_Amended ==
    gapDur >= 0 =>
        /\ gapDur > delay_2u + delay_3u =>
              gapSyms = << END_OF_CHAR, END_OF_WORD >>
        /\ (delay_3u <= gapDur /\ gapDur < delay_2u + delay_3u) =>
              gapSyms = << END_OF_CHAR >>
        /\ gapSyms \in {<< >>, << END_OF_CHAR >>,
                        << END_OF_CHAR, END_OF_WORD >>}

\* A gap longer than delay_2u + delay_3u ended the character and the word.
C3_Witness ==
    /\ gapDur > delay_2u + delay_3u
    /\ edge = FALL
    /\ gapSyms = << END_OF_CHAR, END_OF_WORD >>
    /\ Len(sent) = 2
    /\ sent[2] = CH_SPACE

\* C7: debounce.  While the key is held, a reading of the key down again in
\* BOUNCING, before get_edge() has returned RISE, returns NO_EDGE and leaves
\* the state DOWN (no RISE, no FALL); RISE is returned only from BOUNCING,
\* at a poll where the key has read released at every poll for at least
\* DEBOUNCE_TIME tics.
C7_Debounce ==
    /\ (key /\ prevEdgeState = "BOUNCING") =>
          (edge = NO_EDGE /\ edge_state = "DOWN")
    /\ edge = RISE =>
          /\ ~key
          /\ prevEdgeState = "BOUNCING"
          /\ edge_state = "UP"
          /\ U16(eNow - relSince) >= DEBOUNCE_TIME
    /\ edge = FALL => prevEdgeState = "UP"

\* A release was read, then the key read down again before the debounce
\* time had passed: the bounce was absorbed.
C7_Witness ==
    /\ key
    /\ prevEdgeState = "BOUNCING"
    /\ edge_state = "DOWN"
    /\ edge = NO_EDGE
    /\ U16(eNow - edge_timeout) >= HALF

(***************************************************************************)
(* Claims about the decoder, checked under SpecDecode.                     *)
(***************************************************************************)
InTable(k) == \E i \in 1..CODE_LENGTH : morse_code[i] = k

\* The character the table gives index i (0-based, as in the source).
CharAt(i) == IF i = 0 THEN CH_BLANK ELSE CH_SPACE + i

\* C4: round trip over the code table.  Every DOT or DASH passed to decode()
\* returns 0, and an END_OF_CHAR that follows, from the reset accumulator,
\* the dot/dash sequence whose encoding is the non-zero table entry
\* morse_code[i] returns ' ' + i, or '_' for i = 0.
C4_RoundTrip ==
    /\ sym \in {DOT, DASH} => c = NO_CHAR
    /\ sym = END_OF_CHAR =>
          \A i \in 0..(CODE_LENGTH - 1) :
              (morse_code[i + 1] # 0 /\ CodeOf(lastFed) = morse_code[i + 1])
                  => c = CharAt(i)

\* dot, dash, dot, dot was fed and END_OF_CHAR returned 'L'.
C4_Witness ==
    /\ sym = END_OF_CHAR
    /\ lastFed = << DOT, DASH, DOT, DOT >>
    /\ c = 76

Fresh ==
    /\ sym = NO_SYMBOL
    /\ fed = << >>
    /\ lastFed = << >>
    /\ ~lastInvalid

\* C6: a code number that is not in the table decodes to '#', over all
\* 16-bit code numbers (the lookup does not depend on the state: it is
\* evaluated in the fresh state), and decode(END_OF_CHAR) then leaves the
\* accumulator reset, so that the character that follows an invalid one
\* decodes to its table entry.
C6_Invalid ==
    /\ Fresh => \A k \in 0..(WORD - 1) :
                    ~InTable(k) => code_to_char(k) = CH_INVALID
    /\ (sym = END_OF_CHAR /\ ~InTable(lastCode)) =>
          /\ c = CH_INVALID
          /\ code = 0
          /\ bitmask = 1
    /\ (sym = END_OF_CHAR /\ prevInvalid) =>
          \A i \in 0..(CODE_LENGTH - 1) :
              (morse_code[i + 1] # 0 /\ CodeOf(lastFed) = morse_code[i + 1])
                  => c = CharAt(i)

\* An invalid code gave '#', and the next character, .-.. , decoded to 'L'.
C6_Witness ==
    /\ sym = END_OF_CHAR
    /\ prevInvalid
    /\ lastFed = << DOT, DASH, DOT, DOT >>
    /\ c = 76

(***************************************************************************)
(* Claims about the tic comparison, checked under SpecExpired.             *)
(***************************************************************************)
\* C8: expired() is rollover-safe.  For a timeout armed h <= 32767 tics
\* ahead of t0, expired() is false k tics later for every k < h and true for
\* every k in h..h+32767, also when the counter wraps in between.
C8_Rollover ==
    x_k >= 0 => (x_res <=> x_k >= x_h)

\* The deadline lies beyond the rollover of the counter, the poll before
\* it, and the timeout has not expired.
C8_Witness ==
    /\ x_k >= 0
    /\ x_t0 + x_k < WORD
    /\ x_t0 + x_h >= WORD
    /\ x_h > HALF \div 2
    /\ ~x_res

(***************************************************************************)
(* Claims about the transmitter, checked under SpecUart.                   *)
(***************************************************************************)
\* Start bit, the 8 bits of b least significant first, stop bit.
ExpectedFrame(b) ==
    << 0 >> \o [i \in 1..8 |-> (b \div (2 ^ (i - 1))) % 2] \o << 1 >>

\* C9: transmitter framing.  For a byte b in 0x20..0x5F passed to
\* uart_putchar() with no frame in flight, the TIM0_COMPB ticks that follow
\* write to TX the start bit 0, the bits 0..7 of b and the stop bit 1; the
\* interrupt is enabled until the 10th tick and disabled by it, so that no
\* further level is written and TX stays high.
C9_Framing ==
    (clean /\ txByte \in 32..95) =>
        /\ Len(frame) <= 10
        /\ frame = SubSeq(ExpectedFrame(txByte), 1, Len(frame))
        /\ txie <=> Len(frame) < 10
        /\ frame # << >> => tx = frame[Len(frame)]
        /\ Len(frame) = 10 => tx = 1

\* 0x41 was sent whole: 0, then 1,0,0,0,0,0,1,0, then 1, and the
\* interrupt is disabled.
C9_Witness ==
    /\ clean
    /\ txByte = 65
    /\ frame = << 0, 1, 0, 0, 0, 0, 0, 1, 0, 1 >>
    /\ ~txie
    /\ tx = 1

(***************************************************************************)
(* Claims about the whole pipeline, checked under SpecSOS.                 *)
(***************************************************************************)
SOS_ == << 83, 79, 83, CH_SPACE >>      \* 'S', 'O', 'S', ' '

IsPrefix(s, t) == Len(s) <= Len(t) /\ s = SubSeq(t, 1, Len(s))

\* The press that follows the trailing gap has been consumed by tokenize().
Keyed == nEdges = Len(SOSPlan) + 1

\* C10 as stated: the key pattern of SOS with inter-element gaps shorter
\* than 2u, inter-character gaps in [2u, 3u) and a trailing gap of 3u or
\* more sends 'S', 'O', 'S', ' ' and nothing else.
C10_Original ==
    (seg > 0 /\ okStated) =>
        /\ IsPrefix(sent, SOS_)
        /\ Keyed => sent = SOS_

\* C10 amended: with the durations as tokenize() sees them, the key pattern
\* of SOS with inter-element gaps shorter than 2u, inter-character gaps
\* longer than 2u and shorter than 3u, and a trailing gap longer than
\* 2u + 3u sends 'S', 'O', 'S', ' ' and nothing else.
C10_Amended ==
    (seg > 0 /\ okAmended) =>
        /\ IsPrefix(sent, SOS_)
        /\ Keyed => sent = SOS_

\* SOS was keyed, the gaps in the amended classes, and "SOS " was sent.
C10_Witness ==
    /\ Keyed
    /\ okAmended
    /\ sent = SOS_

(***************************************************************************)
(* Claims about the calls of uart_putchar(), checked under SpecPair.       *)
(***************************************************************************)
\* C11: no transmit overrun.  At every speed selection and for every key
\* input, the main loop calls uart_putchar() only while the transmit
\* interrupt is disabled, and two calls in a row are at least delay_2u tics
\* apart, which is more than the FRAME_BITS tics of a frame.
C11_NoOverrun ==
    /\ txByte # -1 => clean
    /\ putGap # -1 => putGap >= delay_2u
    /\ delay_2u > FRAME_BITS

\* Two characters were sent one after the other (no space in between), the
\* second as soon as can be after the first.
C11_Witness ==
    /\ Len(sent) = 2
    /\ sent[2] # CH_SPACE
    /\ putGap = delay_2u
    /\ clean

(***************************************************************************)
(* Claims about tics(), checked under SpecTics.                            *)
(***************************************************************************)
\* C12: tics() reads the counter atomically.  The value it returns is a
\* value system_tics held at some instant of the call (never the low byte
\* of one value with the high byte of another), and a value returned is
\* never behind the one returned before it, modulo 2^16.
C12_Atomic ==
    /\ (t_pc = "idle" /\ t_ret # -1) => t_ret \in t_during
    /\ (t_ret # -1 /\ t_prev # -1) => S16(U16(t_ret - t_prev)) >= 0

\* tics() has returned a value whose low byte is 255 while a compare match
\* waits to be served: the increment that carries into the high byte was
\* held off.
C12_Witness ==
    /\ t_pc = "idle"
    /\ t_prev # -1
    /\ t_ret % 256 = 255
    /\ t_ret = system_tics
    /\ pendA

(***************************************************************************)
(* Claims about expired() on every pair, checked under SpecCompare.        *)
(***************************************************************************)
\* C13 as stated: for every pair (now, deadline), expired(now, deadline) is
\* true if and only if deadline - now, as a signed 16-bit difference, is
\* <= 0.
C13_Original ==
    x_k >= 0 => (x_res <=> S16(x_h) <= 0)

\* C13, amended: expired(now, deadline) is true if and only if
\* deadline - now, as a signed 16-bit difference, is <= 0 and is not -32768;
\* a deadline exactly 32768 tics away has not expired.
C13_Amended ==
    x_k >= 0 => (x_res <=> (S16(x_h) <= 0 /\ x_h # HALF))

\* The deadline is 32768 tics from now, and has not expired.
C13_Witness ==
    /\ x_k >= 0
    /\ x_h = HALF
    /\ ~x_res

(***************************************************************************)
(* Claims about the end of a word, checked under Spec.                     *)
(***************************************************************************)
\* C14: decode(END_OF_WORD) returns ' ' and leaves (code, bitmask) as they
\* are, whatever they are; and in the pipeline every END_OF_WORD comes
\* right after an END_OF_CHAR, with no DOT or DASH in between, so that it
\* finds the accumulator reset, (code, bitmask) = (0, 1).
C14_EndOfWord ==
    sym = END_OF_WORD =>
        /\ c = CH_SPACE
        /\ code = lastCode /\ bitmask = lastBitmask
        /\ lastCode = 0 /\ lastBitmask = 1
        /\ gapSyms = << END_OF_CHAR, END_OF_WORD >>
        /\ \A k \in {0, 1, 5, 363, WORD - 1}, b \in {0, 1, 2, 512, HALF} :
              decode(END_OF_WORD, k, b)
                  = [code |-> k, bitmask |-> b, ret |-> CH_SPACE]

\* A word has ended: a character and then the space were sent.
C14_Witness ==
    /\ sym = END_OF_WORD
    /\ c = CH_SPACE
    /\ gapSyms = << END_OF_CHAR, END_OF_WORD >>
    /\ Len(sent) = 2
    /\ sent[1] \in {69, 84}           \* 'E' or 'T'

(***************************************************************************)
(* Claims about the timeouts of get_edge() and tokenize(), checked under   *)
(* Spec.                                                                   *)
(***************************************************************************)
\* C15: the window that makes expired() safe.  At every speed selection,
\* with the main loop polling at least once per tic, a timeout that
\* get_edge() or tokenize() arms is at most delay_3u <= 32767 tics ahead of
\* now, and whenever either evaluates expired(now, timeout) the deadline is
\* still no more than delay_3u tics ahead of now (never behind it by a tic
\* or more): always within 32767 tics, so that rollover misjudges nothing.
C15_Window ==
    /\ delay_3u <= HALF - 1
    /\ LongestDelay <= HALF - 1
    /\ eArm # -1 => eArm <= delay_3u
    /\ tArm # -1 => tArm <= delay_3u
    /\ eEval # -1 => eEval <= delay_3u
    /\ tEval # -1 => tEval <= delay_3u

\* tokenize() has evaluated, in the gap after a mark, a timeout that lies
\* beyond the rollover of the counter, and found it not expired.
C15_Witness ==
    /\ tEval > 0
    /\ tArm = -1
    /\ tok_state = "INTERELEMENT"
    /\ tok_timeout < tNow
    /\ U16(tok_timeout - tNow) = tEval

ProsignK ==
    << delay_3u, delay_1u, delay_1u, delay_1u, delay_3u, delay_1u >>

\* What holds all through invite(): every delay(n) returns after n tics at
\* least; each phase of the LED that is over lasted what K gives it, and no
\* more than InviteSlack tics longer; the LED is on in the odd phases; get_edge(), tokenize(),
\* decode() and the main loop have not run.
InviteSafe ==
    /\ ~i_short
    /\ Len(phases) <= Len(ProsignK)
    /\ \A i \in 1..Len(phases) :
          ProsignK[i] <= phases[i] /\ phases[i] <= ProsignK[i] + InviteSlack
    /\ i_pc # "done" => (led <=> Len(phases) % 2 = 0 /\ ledAt # -1)
    /\ i_pc = "done" => (~led /\ Len(phases) = Len(ProsignK) /\ i_code = 0)
    /\ edge_state = "UP" /\ edge_timeout = 0 /\ edge = NO_EDGE
    /\ tok_state = "INTERWORD" /\ tok_timeout = 0
    /\ code = 0 /\ bitmask = 1 /\ sym = NO_SYMBOL /\ c = NO_CHAR
    /\ pc = "get_edge" /\ sent = << >>

\* C17: the startup invitation.  With the tic interrupt firing, invite()
\* returns, before the main loop polls anything, after it has shown K on
\* the LED: on 3 time units, off 1, on 1, off 1, on 3, off 1; the states
\* of the edge detector, the tokenizer and the decoder are left alone, and
\* every delay(n) takes n tics at least.
C17_Invite ==
    /\ []InviteSafe
    /\ <>(i_pc = "done")

\* invite() has returned: the six phases of K were shown, the last dash
\* for exactly 3 time units.
C17_Witness ==
    /\ i_pc = "done"
    /\ ~led
    /\ Len(phases) = 6
    /\ phases[5] = delay_3u
    /\ phases[6] >= delay_1u

C19_Overflow ==
    /\ Bits(fed) > 16 => (bitmask = 0 /\ code = CodeOf(fed) % WORD)
    /\ (sym = END_OF_CHAR /\ Bits(lastFed) > 16) =>
          /\ lastBitmask = 0
          /\ lastCode = CodeOf(lastFed) % WORD
          /\ ~InTable(lastCode)
          /\ c = CH_INVALID

\* 17 dots, then END_OF_CHAR: the code was 65535 and '#' was returned.
C19_Witness ==
    /\ sym = END_OF_CHAR
    /\ Len(lastFed) = 17
    /\ lastCode = WORD - 1
    /\ lastBitmask = 0
    /\ c = CH_INVALID

(***************************************************************************)
(* Claims about what reaches decode() and the UART, checked under Spec.    *)
(***************************************************************************)
\* C20: in the main loop END_OF_CHAR never reaches decode() with code = 0.
\* END_OF_CHAR is the first symbol after the rise that ended a mark and
\* leaves the tokenizer in INTERCHARACTER; the code it closes is not 0 and
\* the character returned is the translation of that code; every byte
\* given to uart_putchar is a printable character, never NUL.
C20_NoEmptyChar ==
    /\ (pc = "get_edge" /\ sym = END_OF_CHAR) =>
          /\ lastCode # 0
          /\ c = code_to_char(lastCode)
          /\ tok_state = "INTERCHARACTER"
          /\ gapSyms = << END_OF_CHAR >>
    /\ txByte # -1 => txByte \in 32..126
    /\ \A i \in 1..Len(sent) : sent[i] \in 32..126

\* END_OF_CHAR has just closed a single dot: code was 1 and 'E' was sent.
C20_Witness ==
    /\ pc = "get_edge"
    /\ sym = END_OF_CHAR
    /\ lastCode = 1
    /\ c = 69
    /\ txByte = 69
    /\ sent = << 69 >>

====
